---- MODULE Spec2Model ----
(***************************************************************************)
(* A model of the StrikePackageGPT command execution engine                *)
(* (services/kali-executor/app/main.py): the command authorizer, the       *)
(* synchronous and asynchronous execution entry points and the websocket   *)
(* stream bridge.                                                          *)
(*                                                                         *)
(* Command strings are sequences of one-character strings, so that         *)
(* splitting, path stripping and the blocked-pattern search are computed   *)
(* on the characters as the Python code computes them.                     *)
(***************************************************************************)
EXTENDS Integers, Sequences, FiniteSets, TLC

VARIABLES
    \* ---- authorizer harness (validate_command as a pure function)
    cmd,          \* the command string under test
    decision,     \* the (is_valid, message) pair validate_command returned
    started,      \* base executables bash started for cmd
    authPc,       \* "new" -> "validated" -> "ran"
    \* ---- runtime target
    kali_container,   \* the global: "none" or "container"
    dockerState,      \* the container's real state in the docker daemon
    cachedStatus,     \* kali_container.status, as of the last reload()
    execCalls,        \* the exec_run calls issued: one per HTTP request, and
                      \* the one of the websocket's current execution
    \* ---- POST /execute and POST /execute/async
    req,              \* request id -> the handler's local state
    running_commands, \* the registry of asynchronous executions
    \* ---- /ws/execute (one connection)
    wsPc,             \* position of the websocket handler coroutine
    wsCommand,        \* the command of the current execution
    connected,        \* whether the client is still there
    execCount,        \* executions started on this connection
    ready,            \* the event loop's FIFO of scheduled callbacks
    output_queue,     \* asyncio.Queue between reader thread and send loop
    stream_complete,  \* asyncio.Event set when the reader is done
    rdPc,             \* position of the reader thread
    nRead,            \* chunks the reader pulled from exec_result.output
    readLog,          \* history: the chunks in the order the reader read them
    sent,             \* history: events sent to the client, current execution
    wsReply,          \* the answer to the last request that was not run
    full_stdout,      \* stdout chunks collected for the nmap parser
    wsParsed,         \* the inputs parse_nmap_output was called on
    keepalives,       \* keepalive events of the current execution
    sendFailures,     \* sends on the connection that raised
    processExit,      \* the code the streamed command's process exited with
    \* ---- the clock of the event loop
    now,              \* loop.time(), in seconds
    waitStart,        \* when the pending wait_for(output_queue.get()) began
    \* ---- the dashboard's host directory
    network_hosts,    \* the global list of hosts
    project_hosts,    \* projects_db[current_project_id]['hosts']
    current_project_id, \* "none", or the id of the active project
    dReq,             \* discover_hosts requests: request id -> handler state
    pipeline,         \* active_pipelines[pipeline_id] and its task
    \* ---- the executor's nmap parser
    nmapStdout,       \* the output handed to parse_nmap_output
    parsedHosts,      \* the hosts it returned
    parsePc           \* "input", then "parsed"

authVars == <<cmd, decision, started, authPc>>
rtVars   == <<kali_container, dockerState, cachedStatus, execCalls>>
httpVars == <<req, running_commands>>
wsVars   == <<wsPc, wsCommand, connected, execCount, ready, output_queue,
              stream_complete, rdPc, nRead, readLog, sent, wsReply,
              full_stdout, wsParsed, keepalives, sendFailures, processExit>>
timeVars == <<now, waitStart>>
dashVars == <<network_hosts, project_hosts, current_project_id, dReq,
              pipeline>>
parseVars == <<nmapStdout, parsedHosts, parsePc>>
executorVars == <<authVars, rtVars, httpVars, wsVars, timeVars, parseVars>>
vars     == <<executorVars, dashVars>>

----------------------------------------------------------------------------
(* Bounds of the model *)

\* pieces concatenated to form a command string under test
MaxPieces == 3
\* concurrent HTTP requests
MaxReq == 2
\* HTTP requests handled while the websocket connection is served
MaxEntryReq == 1
\* discover_hosts requests in flight
MaxDiscover == 2
\* hosts in one discover_hosts request
MaxHosts == 2
\* host elements in an nmap XML document
MaxXmlHosts == 2
\* open ports of the host whose system is inferred
MaxInferPorts == 2
\* lines of an nmap text report
MaxLines == 3
\* seconds of one step of the clock
TickSeconds == 5
\* seconds the clock runs
MaxTime == 40
\* seconds the command of a POST /execute/async request runs
MaxBlock == 30
\* chunks the runtime's output stream yields in one execution
MaxChunks == 2
\* keepalive timeouts while the reader is still running, per execution
MaxKeepalive == 1
\* executions on one websocket connection
MaxExecs == 2

----------------------------------------------------------------------------
(* Character strings *)

IsSpace(c) == c \in {" ", "\t", "\n"}

UpperCase == <<"A","B","C","D","E","F","G","H","I","J","K","L","M",
               "N","O","P","Q","R","S","T","U","V","W","X","Y","Z">>
LowerCase == <<"a","b","c","d","e","f","g","h","i","j","k","l","m",
               "n","o","p","q","r","s","t","u","v","w","x","y","z">>

\* re.IGNORECASE: characters are compared after case folding
Lower(c) ==
    IF \E k \in 1..26 : UpperCase[k] = c
    THEN LowerCase[CHOOSE k \in 1..26 : UpperCase[k] = c]
    ELSE c

RECURSIVE LStrip(_)
LStrip(s) ==
    IF s # <<>> /\ IsSpace(Head(s)) THEN LStrip(Tail(s)) ELSE s

RECURSIVE RStrip(_)
RStrip(s) ==
    IF s # <<>> /\ IsSpace(s[Len(s)])
    THEN RStrip(SubSeq(s, 1, Len(s) - 1))
    ELSE s

\* str.strip()
Strip(s) == RStrip(LStrip(s))

\* the first maximal run of non-whitespace characters of s (s not starting
\* with whitespace)
RECURSIVE FirstWord(_)
FirstWord(s) ==
    IF s = <<>> \/ IsSpace(Head(s)) THEN <<>>
    ELSE <<Head(s)>> \o FirstWord(Tail(s))

\* str.split(): the whitespace-separated words of s
RECURSIVE Split(_)
Split(s) ==
    LET t == LStrip(s) IN
    IF t = <<>> THEN <<>>
    ELSE LET w == FirstWord(t) IN
         <<w>> \o Split(SubSeq(t, Len(w) + 1, Len(t)))

\* word.split("/")[-1]: what follows the last "/" of the word
RECURSIVE LastPathPart(_)
LastPathPart(w) ==
    IF \E k \in 1..Len(w) : w[k] = "/"
    THEN LastPathPart(Tail(w))
    ELSE w

----------------------------------------------------------------------------
(* Regular expressions of BLOCKED_PATTERNS: literals, \s+ and \s*  *)

Lit(s)  == [k \in 1..Len(s) |-> [t |-> "lit", c |-> s[k]]]
WsPlus  == <<[t |-> "ws+", c |-> ""]>>
WsStar  == <<[t |-> "ws*", c |-> ""]>>

\* whether pat[i..] matches s starting at position j
RECURSIVE MatchAt(_, _, _, _)
MatchAt(pat, i, s, j) ==
    IF i > Len(pat) THEN TRUE
    ELSE CASE pat[i].t = "lit" ->
                /\ j <= Len(s)
                /\ Lower(s[j]) = Lower(pat[i].c)
                /\ MatchAt(pat, i + 1, s, j + 1)
           [] pat[i].t = "ws+" ->
                /\ j <= Len(s)
                /\ IsSpace(s[j])
                /\ (MatchAt(pat, i, s, j + 1) \/ MatchAt(pat, i + 1, s, j + 1))
           [] pat[i].t = "ws*" ->
                \/ MatchAt(pat, i + 1, s, j)
                \/ (j <= Len(s) /\ IsSpace(s[j]) /\ MatchAt(pat, i, s, j + 1))

\* re.search(pattern, command, re.IGNORECASE)
re_search(pat, s) == \E j \in 1..(Len(s) + 1) : MatchAt(pat, 1, s, j)

BLOCKED_PATTERNS == <<
    Lit(<<"r","m">>) \o WsPlus \o Lit(<<"-","r","f">>) \o WsPlus \o Lit(<<"/">>),
    Lit(<<"m","k","f","s">>),
    Lit(<<"d","d">>) \o WsPlus \o Lit(<<"i","f","=">>),
    Lit(<<">">>) \o WsStar \o Lit(<<"/","d","e","v","/">>),
    Lit(<<"c","h","m","o","d">>) \o WsPlus \o Lit(<<"7","7","7">>) \o WsPlus
        \o Lit(<<"/">>),
    Lit(<<"s","h","u","t","d","o","w","n">>),
    Lit(<<"r","e","b","o","o","t">>),
    Lit(<<"h","a","l","t">>),
    Lit(<<"k","i","l","l">>) \o WsPlus \o Lit(<<"-","9">>) \o WsPlus
        \o Lit(<<"-","1">>) >>

ALLOWED_COMMANDS == {
    <<"a","i","r","b","a","s","e","-","n","g">>,
    <<"a","i","r","c","r","a","c","k","-","n","g">>,
    <<"a","i","r","e","p","l","a","y","-","n","g">>, <<"a","i","r","m","o","n","-","n","g">>,
    <<"a","i","r","o","d","u","m","p","-","n","g">>, <<"a","m","a","s","s">>,
    <<"a","r","m","i","t","a","g","e">>, <<"a","r","p","i","n","g">>,
    <<"a","r","p","s","p","o","o","f">>, <<"a","u","t","o","p","s","y">>,
    <<"b","a","c","k","d","o","o","r","-","f","a","c","t","o","r","y">>,
    <<"b","e","e","f","-","x","s","s">>, <<"b","e","t","t","e","r","c","a","p">>,
    <<"b","i","n","w","a","l","k">>, <<"b","l","o","o","d","h","o","u","n","d">>,
    <<"b","u","l","k","-","e","x","t","r","a","c","t","o","r">>, <<"b","u","l","l","y">>,
    <<"b","u","r","p","s","u","i","t","e">>, <<"c","a","d","a","v","e","r">>, <<"c","a","t">>,
    <<"c","e","w","l">>, <<"c","h","e","c","k","s","e","c">>, <<"c","h","i","s","e","l">>,
    <<"c","h","k","r","o","o","t","k","i","t">>, <<"c","m","e">>, <<"c","o","m","m","i","x">>,
    <<"c","o","v","e","n","a","n","t">>, <<"c","o","v","e","r","t">>,
    <<"c","o","w","p","a","t","t","y">>, <<"c","r","a","c","k","m","a","p","e","x","e","c">>,
    <<"c","r","u","n","c","h">>, <<"c","u","r","l">>, <<"d","a","v","t","e","s","t">>,
    <<"d","c","3","d","d">>, <<"d","i","g">>, <<"d","i","r","b">>,
    <<"d","i","r","b","u","s","t","e","r">>, <<"d","m","i","t","r","y">>,
    <<"d","n","s","e","n","u","m">>, <<"d","n","s","r","e","c","o","n">>,
    <<"d","n","s","s","p","o","o","f">>, <<"d","r","o","o","p","e","s","c","a","n">>,
    <<"d","s","n","i","f","f">>, <<"e","a","p","h","a","m","m","e","r">>,
    <<"e","m","p","i","r","e">>, <<"e","n","u","m","4","l","i","n","u","x">>,
    <<"e","t","t","e","r","c","a","p">>, <<"e","v","i","l","-","w","i","n","r","m">>,
    <<"e","x","i","f","t","o","o","l">>, <<"e","x","p","l","o","i","t">>,
    <<"f","e","r","n","-","w","i","f","i","-","c","r","a","c","k","e","r">>,
    <<"f","f","u","f">>, <<"f","i","e","r","c","e">>, <<"f","i","l","e">>, <<"f","i","n","d">>,
    <<"f","o","r","e","m","o","s","t">>, <<"f","p","i","n","g">>, <<"g","d","b">>,
    <<"g","h","i","d","r","a">>, <<"g","o","b","u","s","t","e","r">>, <<"g","p","g">>,
    <<"g","r","e","p">>, <<"g","u","y","m","a","g","e","r">>,
    <<"h","a","s","h","-","i","d","e","n","t","i","f","i","e","r">>,
    <<"h","a","s","h","c","a","t">>, <<"h","a","s","h","i","d">>, <<"h","e","a","d">>,
    <<"h","e","x","d","u","m","p">>, <<"h","o","s","t">>,
    <<"h","o","s","t","a","p","d","-","w","p","e">>, <<"h","o","s","t","n","a","m","e">>,
    <<"h","p","i","n","g","3">>, <<"h","y","d","r","a">>, <<"i","d">>,
    <<"i","f","c","o","n","f","i","g">>,
    <<"i","m","p","a","c","k","e","t","-","p","s","e","x","e","c">>,
    <<"i","m","p","a","c","k","e","t","-","s","m","b","s","e","r","v","e","r">>, <<"i","p">>,
    <<"j","o","h","n">>, <<"j","o","o","m","s","c","a","n">>, <<"k","i","s","m","e","t">>,
    <<"l","i","g","o","l","o">>,
    <<"l","i","n","u","x","-","e","x","p","l","o","i","t","-","s","u","g","g","e","s","t","e","r">>,
    <<"l","s">>, <<"l","t","r","a","c","e">>, <<"m","a","c","c","h","a","n","g","e","r">>,
    <<"m","a","l","t","e","g","o">>, <<"m","a","s","s","c","a","n">>,
    <<"m","a","s","s","c","a","n","-","w","e","b">>, <<"m","d","k","3">>, <<"m","d","k","4">>,
    <<"m","e","d","u","s","a">>, <<"m","i","m","i","k","a","t","z">>,
    <<"m","s","f","c","o","n","s","o","l","e">>, <<"m","s","f","v","e","n","o","m">>,
    <<"n","b","t","s","c","a","n">>, <<"n","c">>, <<"n","c","r","a","c","k">>,
    <<"n","e","t","c","a","t">>, <<"n","e","t","s","t","a","t">>, <<"n","g","r","e","p">>,
    <<"n","i","k","t","o">>, <<"n","m","a","p">>, <<"n","s","l","o","o","k","u","p">>,
    <<"o","b","j","d","u","m","p">>, <<"o","l","e","t","o","o","l","s">>,
    <<"o","l","e","v","b","a">>, <<"o","n","e","s","i","x","t","y","o","n","e">>,
    <<"o","p","e","n","s","s","l">>, <<"o","p","e","n","v","p","n">>,
    <<"o","p","h","c","r","a","c","k">>, <<"o","u","t","g","u","e","s","s">>, <<"p","0","f">>,
    <<"p","a","t","a","t","o","r">>, <<"p","d","f","-","p","a","r","s","e","r">>,
    <<"p","d","f","i","d">>, <<"p","e","e","p","d","f">>, <<"p","i","n","g">>,
    <<"p","i","x","i","e","w","p","s">>, <<"p","o","w","e","r","s","h","e","l","l">>,
    <<"p","o","w","e","r","s","p","l","o","i","t">>,
    <<"p","r","o","x","y","c","h","a","i","n","s">>, <<"p","w","d">>,
    <<"p","w","n","t","o","o","l","s">>, <<"p","w","s","h">>, <<"p","y","t","h","o","n">>,
    <<"p","y","t","h","o","n","2">>, <<"p","y","t","h","o","n","3">>, <<"r","2">>,
    <<"r","a","d","a","r","e","2">>, <<"r","e","a","d","e","l","f">>,
    <<"r","e","a","v","e","r">>, <<"r","e","c","o","n","-","n","g">>,
    <<"r","e","s","p","o","n","d","e","r">>, <<"r","k","h","u","n","t","e","r">>,
    <<"r","o","u","t","e">>, <<"r","o","u","t","e","r","s","p","l","o","i","t">>,
    <<"r","s","m","a","n","g","l","e","r">>, <<"s","c","a","l","p","e","l">>,
    <<"s","e","a","r","c","h","s","p","l","o","i","t">>, <<"s","e","t">>,
    <<"s","e","t","o","o","l","k","i","t">>, <<"s","h","a","r","p","h","o","u","n","d">>,
    <<"s","h","e","l","l","n","o","o","b">>, <<"s","k","i","p","f","i","s","h">>,
    <<"s","l","e","u","t","h","k","i","t">>, <<"s","l","i","v","e","r">>,
    <<"s","m","b","c","l","i","e","n","t">>, <<"s","n","m","p","-","c","h","e","c","k">>,
    <<"s","o","c","a","t">>, <<"s","q","l","m","a","p">>, <<"s","s">>, <<"s","s","h">>,
    <<"s","s","h","u","t","t","l","e">>, <<"s","s","l","d","u","m","p">>,
    <<"s","t","e","g","h","i","d","e">>, <<"s","t","e","g","o","s","u","i","t","e">>,
    <<"s","t","r","a","c","e">>, <<"s","t","r","i","n","g","s">>, <<"t","a","i","l">>,
    <<"t","c","p","d","u","m","p">>, <<"t","c","p","f","l","o","w">>,
    <<"t","c","p","i","c","k">>, <<"t","c","p","r","e","p","l","a","y">>,
    <<"t","h","e","h","a","r","v","e","s","t","e","r">>, <<"t","o","r">>,
    <<"t","r","a","c","e","r","o","u","t","e">>, <<"t","s","h","a","r","k">>,
    <<"u","n","a","m","e">>, <<"u","n","i","c","o","r","n","s","c","a","n">>,
    <<"u","n","i","s","c","a","n">>, <<"v","o","l","a","t","i","l","i","t","y">>,
    <<"w","a","f","w","0","0","f">>, <<"w","a","p","i","t","i">>, <<"w","a","s","h">>,
    <<"w","f","u","z","z">>, <<"w","g","e","t">>, <<"w","h","a","t","w","e","b">>,
    <<"w","h","o","a","m","i">>, <<"w","h","o","i","s">>,
    <<"w","i","f","i","p","h","i","s","h","e","r">>, <<"w","i","f","i","t","e">>,
    <<"w","i","r","e","s","h","a","r","k">>, <<"w","p","s","c","a","n">>, <<"x","x","d">>,
    <<"y","e","r","s","i","n","i","a">>, <<"z","a","p","-","c","l","i">>,
    <<"z","a","p","r","o","x","y">>
    }

----------------------------------------------------------------------------
(* validate_command *)

\* the base executable: first word of the command, leading path removed
BaseCmd(command) == LastPathPart(Split(Strip(command))[1])

\* the patterns of BLOCKED_PATTERNS found in the command
BlockedHits(command) ==
    {p \in 1..Len(BLOCKED_PATTERNS) : re_search(BLOCKED_PATTERNS[p], command)}

Min(S) == CHOOSE x \in S : \A y \in S : x <= y

\* the mutation "allow-set lookup before the blocked-pattern loop"
validate_command_allow_first(command) ==
    IF Split(Strip(command)) = <<>>
    THEN [allowed |-> FALSE, reason |-> "Empty command", pattern |-> 0]
    ELSE IF BaseCmd(command) \notin ALLOWED_COMMANDS
    THEN [allowed |-> FALSE, reason |-> "not in allowed list", pattern |-> 0]
    ELSE IF BlockedHits(command) # {}
    THEN [allowed |-> FALSE, reason |-> "Blocked pattern detected",
          pattern |-> Min(BlockedHits(command))]
    ELSE [allowed |-> TRUE, reason |-> "OK", pattern |-> 0]

\* the mutation "the allow-set lookup is dropped"
validate_command_no_allow_set(command) ==
    IF Split(Strip(command)) = <<>>
    THEN [allowed |-> FALSE, reason |-> "Empty command", pattern |-> 0]
    ELSE IF BlockedHits(command) # {}
    THEN [allowed |-> FALSE, reason |-> "Blocked pattern detected",
          pattern |-> Min(BlockedHits(command))]
    ELSE [allowed |-> TRUE, reason |-> "OK", pattern |-> 0]

validate_command(command) ==
    IF Split(Strip(command)) = <<>>
    THEN [allowed |-> FALSE, reason |-> "Empty command", pattern |-> 0]
    ELSE IF BlockedHits(command) # {}
    THEN [allowed |-> FALSE, reason |-> "Blocked pattern detected",
          pattern |-> Min(BlockedHits(command))]
    ELSE IF BaseCmd(command) \notin ALLOWED_COMMANDS
    THEN [allowed |-> FALSE, reason |-> "not in allowed list", pattern |-> 0]
    ELSE [allowed |-> TRUE, reason |-> "OK", pattern |-> 0]

\* is_nmap_command
is_nmap_command(command) ==
    /\ Split(Strip(command)) # <<>>
    /\ BaseCmd(command) \in {<<"n","m","a","p">>, <<"m","a","s","s","c","a","n">>}

----------------------------------------------------------------------------
(* bash -c "cd <working_dir> && <command>": what the shell starts *)

ShellSeparators == {";", "|", "&"}

\* the text of s up to its first shell separator
RECURSIVE FirstSegment(_)
FirstSegment(s) ==
    IF s = <<>> \/ Head(s) \in ShellSeparators THEN <<>>
    ELSE <<Head(s)>> \o FirstSegment(Tail(s))

\* the simple commands of a command line, split at ';', '|', '&&', '||', '&'
RECURSIVE ShellSegments(_)
ShellSegments(s) ==
    IF s = <<>> THEN <<>>
    ELSE LET g == FirstSegment(s) IN
         <<g>> \o ShellSegments(SubSeq(s, Len(g) + 2, Len(s)))

\* the base executables bash starts when it runs the command line (a word
\* ending in "/" names a directory and starts nothing)
ShellExecutables(command) ==
    LET segs == ShellSegments(command) IN
    {BaseCmd(segs[k]) : k \in {n \in 1..Len(segs) : Split(Strip(segs[n])) # <<>>}}
        \ {<<>>}

\* _run_command_sync: the command line is handed to bash unchanged
_run_command_sync(command) == ShellExecutables(command)

----------------------------------------------------------------------------
(* Commands the checks draw from *)

Pieces == {
    <<"l","s">>,
    <<"n","m","a","p">>,
    <<"t","o","u","c","h">>,
    <<"/","b","i","n","/">>,
    <<" ">>,
    <<";">>,
    <<" ",";">>,
    <<"r","m"," ","-","r","f">>,
    <<"/">>,
    <<"H","a","l","t">>,
    <<">","/","d","e","v","/">> }

RECURSIVE Concat(_)
Concat(ps) == IF ps = <<>> THEN <<>> ELSE Head(ps) \o Concat(Tail(ps))

\* every concatenation of at most MaxPieces pieces
Commands ==
    UNION {{Concat(ps) : ps \in [1..n -> Pieces]} : n \in 0..MaxPieces}

NoDecision == [allowed |-> FALSE, reason |-> "none", pattern |-> 0]

CmdLs      == <<"l","s">>
CmdNmap    == <<"n","m","a","p">>
CmdTouch   == <<"t","o","u","c","h">>
CmdEmpty   == <<>>

----------------------------------------------------------------------------
(* Initial values of the parts of the state *)

\* the exit code `timeout <timeout> <command>` ends with when it kills the
\* command
TimeoutExit == 124
\* exit codes a command ends with by itself
NaturalExits == {0, 1}
\* exit_code: Optional[int] = None
NoExit == -1

IdleReq ==
    [pc |-> "idle", kind |-> "", command |-> <<>>, code |-> 0, status |-> "",
     exit_code |-> NoExit, refreshed |-> "", absent |-> FALSE, overran |-> FALSE,
     endedByEngine |-> FALSE]

AuthIdle ==
    /\ cmd = <<>>
    /\ decision = NoDecision
    /\ started = {}
    /\ authPc = "off"

RtIdle ==
    /\ kali_container = "container"
    /\ dockerState = "running"
    /\ cachedStatus = "running"
    /\ execCalls = {}

HttpIdle ==
    /\ req = [r \in 1..MaxReq |-> IdleReq]
    /\ running_commands = <<>>

WsIdle ==
    /\ wsPc = "off"
    /\ wsCommand = <<>>
    /\ connected = FALSE
    /\ execCount = 0
    /\ ready = <<>>
    /\ output_queue = <<>>
    /\ stream_complete = FALSE
    /\ rdPc = "idle"
    /\ nRead = 0
    /\ readLog = <<>>
    /\ sent = <<>>
    /\ wsReply = ""
    /\ full_stdout = <<>>
    /\ wsParsed = <<>>
    /\ keepalives = 0
    /\ sendFailures = 0
    /\ processExit = NoExit

\* the dashboard before any host was reported
IdleDiscover == [pc |-> "idle", hosts |-> <<>>, i |-> 0,
                 added |-> 0, updated |-> 0, overlapped |-> FALSE]

\* no recon pipeline was started
NoPipeline ==
    [pc |-> "none", status |-> "", stages |-> <<>>, current_stage |-> 0,
     i |-> 0, results |-> <<>>, cancelled |-> FALSE, late |-> FALSE]

DashIdle ==
    /\ network_hosts = <<>>
    /\ project_hosts = <<>>
    /\ current_project_id = "none"
    /\ dReq = [r \in 1..MaxDiscover |-> IdleDiscover]
    /\ pipeline = NoPipeline

\* the parser before any output was handed to it
ParseIdle ==
    /\ nmapStdout = [xml |-> [kind |-> "none", hosts |-> <<>>], text |-> <<>>]
    /\ parsedHosts = <<>>
    /\ parsePc = "idle"

\* the clock before the first wait
TimeIdle ==
    /\ now = 0
    /\ waitStart = 0

----------------------------------------------------------------------------
(* The authorizer as a pure function: validate a command, then run it *)

InitAuth ==
    /\ cmd \in Commands
    /\ decision = NoDecision
    /\ started = {}
    /\ authPc = "new"
    /\ RtIdle /\ HttpIdle /\ WsIdle /\ TimeIdle /\ DashIdle /\ ParseIdle

\* is_valid, message = validate_command(request.command)
Authorize ==
    /\ authPc = "new"
    /\ decision' = validate_command(cmd)
    /\ authPc' = "validated"
    /\ UNCHANGED <<cmd, started, rtVars, httpVars, wsVars, timeVars,
                   dashVars, parseVars>>

\* the allowed command is run by bash inside the container
RunAllowed ==
    /\ authPc = "validated"
    /\ decision.allowed
    /\ started' = _run_command_sync(cmd)
    /\ authPc' = "ran"
    /\ UNCHANGED <<cmd, decision, rtVars, httpVars, wsVars, timeVars,
                   dashVars, parseVars>>

NextAuth == Authorize \/ RunAllowed

SpecAuth == InitAuth /\ [][NextAuth]_vars

\* C3: a command whose base executable (first whitespace-separated word,
\* leading path removed) is not in the allow-set is denied by
\* validate_command, whatever its remaining arguments are.
C3_NotAllowListedDenied ==
    (authPc # "new"
        /\ (Split(Strip(cmd)) = <<>> \/ BaseCmd(cmd) \notin ALLOWED_COMMANDS))
    => ~decision.allowed

\* C3 witness: a command with arguments and a base executable outside the
\* allow-set has been validated and denied for that reason.
C3_Witness ==
    /\ authPc = "validated"
    /\ Len(Split(Strip(cmd))) >= 2
    /\ BaseCmd(cmd) = CmdTouch
    /\ decision.reason = "not in allowed list"

\* C4: a command that matches a blocked pattern anywhere in the full string
\* is denied with the blocked-pattern reason, whether or not its base
\* executable is in the allow-set.
C4_BlockedPatternWins ==
    (authPc # "new" /\ BlockedHits(cmd) # {})
    => (~decision.allowed /\ decision.reason = "Blocked pattern detected")

\* C4 witness: a blocked command whose base executable is not allow-listed
\* has been denied with the blocked-pattern reason.
C4_Witness ==
    /\ authPc = "validated"
    /\ BlockedHits(cmd) # {}
    /\ Split(Strip(cmd)) # <<>>
    /\ BaseCmd(cmd) \notin ALLOWED_COMMANDS
    /\ decision.reason = "Blocked pattern detected"

\* C2: every executable started for a command that validate_command
\* allowed is a member of the allow-set.
C2_OnlyAllowListedRun ==
    authPc = "ran" => started \subseteq ALLOWED_COMMANDS

----------------------------------------------------------------------------
(* POST /execute and POST /execute/async *)

\* commands of the HTTP requests: allowed, not allow-listed, blocked
CmdLsHalt == <<"l","s"," ","H","a","l","t">>
ReqCommands == {CmdLs, CmdTouch, CmdLsHalt}

\* commands of the websocket requests: none, allowed, allowed scanner, denied
WsCommands == {CmdEmpty, CmdLs, CmdNmap, CmdTouch}

\* validate_command on the commands the requests carry
Validated == [c \in ReqCommands \cup WsCommands |-> validate_command(c)]

\* the mutation "the handler does not look at is_valid"
IsValidIgnored(c) == TRUE

\* is_valid, message = validate_command(command); if not is_valid: reject
IsValid(c) == Validated[c].allowed

NewReq(kind, command) ==
    [pc |-> "idle", kind |-> kind, command |-> command, code |-> 0,
     status |-> "", exit_code |-> NoExit, refreshed |-> "", absent |-> FALSE,
     overran |-> FALSE, endedByEngine |-> FALSE]

\* the handler of request rq ends with an HTTP status code: a raised
\* HTTPException(status_code, ...) or the returned result
Respond(rq, code, status) ==
    [rq EXCEPT !.pc = "done", !.code = code, !.status = status]

\* a request arrives at POST /execute; execute_command up to its first
\* await: the container check and the authorization
ExecuteStart(r) ==
    /\ req[r].pc = "idle"
    /\ \E c \in ReqCommands :
          LET new == NewReq("execute", c) IN
          req' = [req EXCEPT ![r] =
              IF kali_container = "none"
              THEN [Respond(new, 503, "") EXCEPT !.absent = TRUE]
              ELSE IF ~IsValid(c)
              THEN Respond(new, 403, "")
              ELSE [new EXCEPT !.pc = "reload"]]
    /\ UNCHANGED <<authVars, timeVars, dashVars, parseVars>>
    /\ UNCHANGED <<rtVars, running_commands, wsVars>>

\* kali_container.reload() on a worker thread
ExecuteReload(r) ==
    /\ req[r].pc = "reload"
    /\ cachedStatus' = dockerState
    /\ req' = [req EXCEPT ![r].pc = "check", ![r].refreshed = dockerState]
    /\ UNCHANGED <<authVars, timeVars, dashVars, parseVars>>
    /\ UNCHANGED <<kali_container, dockerState, execCalls,
                   running_commands, wsVars>>

\* what `except Exception` makes of an HTTPException raised inside the try
\* block of execute_command
ExceptException(code) == 500

\* the status test after the reload; its HTTPException(503) is raised inside
\* the try block
ExecuteCheck(r) ==
    /\ req[r].pc = "check"
    /\ req' = [req EXCEPT ![r] =
          IF cachedStatus # "running"
          THEN Respond(req[r], ExceptException(503), "")
          ELSE [req[r] EXCEPT !.pc = "exec"]]
    /\ UNCHANGED <<authVars, timeVars, dashVars, parseVars>>
    /\ UNCHANGED <<rtVars, running_commands, wsVars>>

\* exec_run on a worker thread, through _run_command_sync: no timeout is
\* passed on, the call returns when the command ends by itself. A container
\* that stopped meanwhile makes docker raise APIError
ExecuteExec(r) ==
    /\ req[r].pc = "exec"
    /\ execCalls' = execCalls \cup
          {[entry |-> "execute", id |-> r, command |-> req[r].command,
            refreshed |-> req[r].refreshed]}
    /\ IF dockerState # "running"
       THEN req' = [req EXCEPT ![r] = Respond(req[r], 500, "")]
       ELSE \E x \in NaturalExits, late \in BOOLEAN :
              req' = [req EXCEPT ![r] =
                  [Respond(req[r], 200, "completed") EXCEPT
                      !.exit_code = x, !.overran = late]]
    /\ UNCHANGED <<authVars, timeVars, dashVars, parseVars>>
    /\ UNCHANGED <<kali_container, dockerState, cachedStatus,
                   running_commands, wsVars>>

\* a request arrives at POST /execute/async; execute_command_async:
\* container check, authorization, registry entry, background task, answer
AsyncStart(r) ==
    /\ req[r].pc = "idle"
    /\ \E c \in ReqCommands :
          LET new == NewReq("async", c) IN
          IF kali_container = "none"
          THEN /\ req' = [req EXCEPT ![r] =
                      [Respond(new, 503, "") EXCEPT !.absent = TRUE]]
               /\ UNCHANGED running_commands
          ELSE IF ~IsValid(c)
          THEN /\ req' = [req EXCEPT ![r] = Respond(new, 403, "")]
               /\ UNCHANGED running_commands
          ELSE /\ running_commands' = running_commands @@
                      (r :> [command |-> c, status |-> "running",
                             exit_code |-> NoExit, completed_at |-> FALSE])
               /\ req' = [req EXCEPT ![r] =
                      [new EXCEPT !.pc = "background", !.code = 200,
                                  !.status = "running"]]
    /\ UNCHANGED <<authVars, timeVars, dashVars, parseVars>>
    /\ UNCHANGED <<rtVars, wsVars>>

\* _run_command_background: it holds no await, so it runs in one piece on
\* the event loop: reload, exec_run of `timeout <timeout> <command>`, update.
\* The exec_run call returns when the command has ended, d seconds later,
\* and nothing else runs on the event loop in between
AsyncBackgroundTakes(r, d) ==
    /\ req[r].pc = "background"
    /\ cachedStatus' = dockerState
    /\ execCalls' = execCalls \cup
          {[entry |-> "async", id |-> r, command |-> req[r].command,
            refreshed |-> dockerState]}
    /\ IF dockerState # "running"
       THEN /\ running_commands' = [running_commands EXCEPT ![r] =
                   [@ EXCEPT !.status = "failed", !.completed_at = TRUE]]
            /\ req' = [req EXCEPT ![r] =
                   [req[r] EXCEPT !.pc = "done", !.refreshed = dockerState]]
       ELSE \E x \in NaturalExits, late \in BOOLEAN :
            /\ running_commands' = [running_commands EXCEPT ![r] =
                   [@ EXCEPT !.status = "completed", !.completed_at = TRUE,
                             !.exit_code = IF late THEN TimeoutExit ELSE x]]
            /\ req' = [req EXCEPT ![r] =
                   [req[r] EXCEPT !.pc = "done", !.refreshed = dockerState,
                                  !.overran = late, !.endedByEngine = late]]
    /\ now' = now + d
    /\ UNCHANGED <<authVars, waitStart, dashVars, parseVars>>
    /\ UNCHANGED <<kali_container, dockerState, wsVars>>

\* _run_command_background, the mutation that runs again for an execution
\* it has already finished
AsyncBackgroundRerun(r) ==
    /\ req[r].pc \in {"background", "done"}
    /\ r \in DOMAIN running_commands
    /\ running_commands' = [running_commands EXCEPT ![r] =
           [@ EXCEPT !.status = IF @ = "completed" THEN "failed"
                                ELSE "completed",
                     !.completed_at = TRUE]]
    /\ req' = [req EXCEPT ![r].pc = "done"]
    /\ UNCHANGED <<authVars, timeVars, dashVars, parseVars>>
    /\ UNCHANGED <<rtVars, wsVars>>

\* _run_command_background, the time the exec_run call takes left aside
AsyncBackground(r) == AsyncBackgroundTakes(r, 0)

\* the container is stopped or started from outside the service
ContainerFlips ==
    /\ dockerState' = IF dockerState = "running" THEN "exited" ELSE "running"
    /\ UNCHANGED <<authVars, timeVars, dashVars, parseVars>>
    /\ UNCHANGED <<kali_container, cachedStatus, execCalls,
                   httpVars, wsVars>>

\* lifespan: the container is looked up once at startup and may be missing
InitRuntime ==
    /\ kali_container \in {"none", "container"}
    /\ dockerState \in {"running", "exited"}
    /\ cachedStatus = dockerState
    /\ execCalls = {}

Init ==
    /\ AuthIdle /\ InitRuntime /\ HttpIdle /\ WsIdle /\ TimeIdle
    /\ DashIdle /\ ParseIdle

\* a step of the handler of HTTP request r
HttpStep(r) ==
    \/ ExecuteStart(r)
    \/ ExecuteReload(r)
    \/ ExecuteCheck(r)
    \/ ExecuteExec(r)
    \/ AsyncStart(r)
    \/ AsyncBackground(r)

NextHttp ==
    \/ \E r \in 1..MaxReq : HttpStep(r)
    \/ ContainerFlips

Spec == Init /\ [][NextHttp]_vars

\* the status of the result the caller of request r gets
ResultStatus(r) ==
    IF req[r].kind = "async" THEN running_commands[r].status ELSE req[r].status

\* the exit code of the result the caller of request r gets
ResultExit(r) ==
    IF req[r].kind = "async" THEN running_commands[r].exit_code
    ELSE req[r].exit_code

\* request r ran its command and has its result
Finished(r) ==
    /\ req[r].pc = "done"
    /\ IF req[r].kind = "async"
       THEN r \in DOMAIN running_commands
            /\ running_commands[r].status = "completed"
       ELSE req[r].code = 200

\* C5: when a command runs longer than the caller's timeout, the engine
\* itself ends the execution, and the result's status is a timeout status
\* that differs from the status of a command that ended by itself with a
\* non-zero exit code.
C5_TimeoutStatusDistinguished ==
    \A r \in 1..MaxReq :
        (Finished(r) /\ req[r].overran) =>
            /\ req[r].endedByEngine
            /\ \A q \in 1..MaxReq :
                  (Finished(q) /\ ~req[q].overran /\ ResultExit(q) # 0)
                      => ResultStatus(r) # ResultStatus(q)

----------------------------------------------------------------------------
(* WebSocket /ws/execute: one connection *)

Event(type, data) == [type |-> type, data |-> data]

IsTerminal(e) == e.type \in {"complete", "error"}
IsOutput(e)   == e.type \in {"stdout", "stderr"}

\* websocket.send_json(event): the event reaches the client, or the send
\* raises because the client is gone
SendOk == connected

\* asyncio.Queue.put, the mutation "new items go to the front"
QueuePutFront(q, item) == <<item>> \o q

\* asyncio.Queue.put on the unbounded queue
QueuePut(q, item) == Append(q, item)

\* the condition of the send loop
SendLoopContinues == ~stream_complete \/ output_queue # <<>>

\* asyncio.wait_for(output_queue.get(), timeout=keepalive_interval), the
\* mutation "the get is awaited without a timeout"
WaitForNeverTimesOut == FALSE

\* asyncio.wait_for(output_queue.get(), timeout=keepalive_interval): the
\* timeout fires after keepalive_interval seconds without an item. By then
\* the loop has run every callback scheduled before, and the reader thread
\* is blocked on the output stream or has returned
WaitForTimesOut ==
    /\ output_queue = <<>>
    /\ ready = <<>>
    /\ rdPc \in {"reading", "done"}

\* where `break` in the send loop continues, the mutation "continue with the
\* next request"
AfterBreakNextRequest == "receive"

\* where `break` in the send loop continues: at `await read_future`
AfterBreak == "join"

\* a request that is answered without being run: no command, a denied
\* command, or no container
WsReject ==
    /\ wsPc = "receive" /\ connected
    /\ \E c \in WsCommands :
          /\ \/ c = <<>>
             \/ ~IsValid(c)
             \/ kali_container = "none"
          /\ wsReply' =
                IF c = <<>> THEN "No command provided"
                ELSE IF ~IsValid(c) THEN "Command blocked"
                ELSE "Kali container not available"
    /\ UNCHANGED <<authVars, timeVars, dashVars, parseVars>>
    /\ UNCHANGED <<rtVars, httpVars, wsPc, wsCommand, connected,
                   execCount, ready, output_queue, stream_complete, rdPc,
                   nRead, readLog, sent, full_stdout, wsParsed,
                   keepalives, sendFailures,
                   processExit>>

\* a request that passes the checks: reload and exec_run(stream=True) are
\* called in the handler; when exec_run raises, the handler answers with an
\* error event, otherwise it starts the reader thread and enters the send
\* loop. The handler does not await between the start of the thread and the
\* first test of the loop condition, so no callback of the thread has run
\* by then: stream_complete is not set and the handler waits for an item
WsAccept ==
    /\ wsPc = "receive" /\ connected
    /\ execCount < MaxExecs
    /\ kali_container # "none"
    /\ \E c \in WsCommands :
          /\ c # <<>>
          /\ IsValid(c)
          /\ wsCommand' = c
          /\ execCalls' = {e \in execCalls : e.entry # "ws"} \cup
                {[entry |-> "ws", id |-> execCount + 1, command |-> c,
                  refreshed |-> dockerState]}
    /\ cachedStatus' = dockerState
    /\ execCount' = execCount + 1
    /\ wsReply' = ""
    /\ ready' = <<>>
    /\ output_queue' = <<>>
    /\ stream_complete' = FALSE
    /\ nRead' = 0
    /\ readLog' = <<>>
    /\ full_stdout' = <<>>
    /\ wsParsed' = <<>>
    /\ keepalives' = 0
    /\ sendFailures' = 0
    /\ processExit' = NoExit
    /\ IF dockerState # "running"
       THEN /\ sent' = <<Event("error", 0)>>
            /\ wsPc' = "receive"
            /\ rdPc' = "idle"
       ELSE /\ sent' = <<>>
            /\ wsPc' = "get"
            /\ rdPc' = "reading"
    /\ waitStart' = now
    /\ UNCHANGED <<authVars, now, dashVars, parseVars>>
    /\ UNCHANGED <<kali_container, dockerState, httpVars, connected>>

\* receive_json raises WebSocketDisconnect: the handler returns
WsReceiveDisconnected ==
    /\ wsPc = "receive" /\ ~connected
    /\ wsPc' = "closed"
    /\ UNCHANGED <<authVars, timeVars, dashVars, parseVars>>
    /\ UNCHANGED <<rtVars, httpVars, wsCommand, connected, execCount,
                   ready, output_queue, stream_complete, rdPc, nRead, readLog,
                   sent, wsReply, full_stdout, wsParsed,
                   keepalives, sendFailures,
                   processExit>>

\* the reader thread pulls one (stdout, stderr) pair from exec_result.output
\* (a demultiplexed frame: one of the two is None) and schedules a queue.put
\* for the part that is not empty
ReaderRead ==
    /\ rdPc = "reading"
    /\ nRead < MaxChunks
    /\ nRead' = nRead + 1
    /\ \E part \in {"stdout", "stderr"} :
          LET item == Event(part, nRead + 1) IN
          /\ readLog' = Append(readLog, item)
          /\ ready' = Append(ready, [cb |-> "create_task", item |-> item])
    /\ UNCHANGED <<authVars, timeVars, dashVars, parseVars>>
    /\ UNCHANGED <<rtVars, httpVars, wsPc, wsCommand, connected,
                   execCount, output_queue, stream_complete, rdPc, sent,
                   wsReply, full_stdout, wsParsed, keepalives, sendFailures,
                   processExit>>

\* the output stream ends
ReaderEnd ==
    /\ rdPc = "reading"
    /\ rdPc' = "finally"
    /\ processExit' \in NaturalExits
    /\ UNCHANGED <<authVars, timeVars, dashVars, parseVars>>
    /\ UNCHANGED <<rtVars, httpVars, wsPc, wsCommand, connected,
                   execCount, ready, output_queue, stream_complete, nRead,
                   readLog, sent, wsReply, full_stdout, wsParsed,
                   keepalives, sendFailures>>

\* reading the stream raises: the reader schedules the put of an error item
ReaderRaise ==
    /\ rdPc = "reading"
    /\ ready' = Append(ready, [cb |-> "create_task", item |-> Event("error", 0)])
    /\ rdPc' = "finally"
    /\ UNCHANGED <<authVars, timeVars, dashVars, parseVars>>
    /\ UNCHANGED <<rtVars, httpVars, wsPc, wsCommand, connected,
                   execCount, output_queue, stream_complete, nRead, readLog,
                   sent, wsReply, full_stdout, wsParsed,
                   keepalives, sendFailures,
                   processExit>>

\* finally: loop.call_soon_threadsafe(complete_event.set)
ReaderFinally ==
    /\ rdPc = "finally"
    /\ ready' = Append(ready, [cb |-> "set", item |-> Event("", 0)])
    /\ rdPc' = "returned"
    /\ UNCHANGED <<authVars, timeVars, dashVars, parseVars>>
    /\ UNCHANGED <<rtVars, httpVars, wsPc, wsCommand, connected,
                   execCount, output_queue, stream_complete, nRead, readLog,
                   sent, wsReply, full_stdout, wsParsed,
                   keepalives, sendFailures,
                   processExit>>

\* the thread function returns: the executor hands the result to read_future
\* through the event loop
ReaderReturn ==
    /\ rdPc = "returned"
    /\ ready' = Append(ready, [cb |-> "future_done", item |-> Event("", 0)])
    /\ rdPc' = "exited"
    /\ UNCHANGED <<authVars, timeVars, dashVars, parseVars>>
    /\ UNCHANGED <<rtVars, httpVars, wsPc, wsCommand, connected,
                   execCount, output_queue, stream_complete, nRead, readLog,
                   sent, wsReply, full_stdout, wsParsed,
                   keepalives, sendFailures,
                   processExit>>

\* the event loop runs its oldest scheduled callback
LoopRun ==
    /\ ready # <<>>
    /\ LET h == Head(ready) IN
       /\ ready' = IF h.cb = "create_task"
                   THEN Append(Tail(ready), [cb |-> "put", item |-> h.item])
                   ELSE Tail(ready)
       /\ output_queue' = IF h.cb = "put" THEN QueuePut(output_queue, h.item)
                          ELSE output_queue
       /\ stream_complete' = IF h.cb = "set" THEN TRUE ELSE stream_complete
       /\ rdPc' = IF h.cb = "future_done" THEN "done" ELSE rdPc
    /\ UNCHANGED <<authVars, timeVars, dashVars, parseVars>>
    /\ UNCHANGED <<rtVars, httpVars, wsPc, wsCommand, connected,
                   execCount, nRead, readLog, sent, wsReply, full_stdout,
                   wsParsed,
                   keepalives, sendFailures, processExit>>

\* the while condition of the send loop
WsLoop ==
    /\ wsPc = "loop"
    /\ wsPc' = IF SendLoopContinues THEN "get" ELSE "join"
    /\ waitStart' = IF SendLoopContinues THEN now ELSE waitStart
    /\ UNCHANGED <<authVars, now, dashVars, parseVars>>
    /\ UNCHANGED <<rtVars, httpVars, wsCommand, connected, execCount,
                   ready, output_queue, stream_complete, rdPc, nRead, readLog,
                   sent, wsReply, full_stdout, wsParsed,
                   keepalives, sendFailures,
                   processExit>>

\* output_queue.get() returns an item and the item is sent to the client
WsGet ==
    /\ wsPc = "get"
    /\ output_queue # <<>>
    /\ LET item == Head(output_queue) IN
       /\ output_queue' = Tail(output_queue)
       /\ full_stdout' = IF item.type = "stdout" /\ is_nmap_command(wsCommand)
                         THEN Append(full_stdout, item.data)
                         ELSE full_stdout
       /\ IF SendOk
          THEN /\ sent' = Append(sent, item)
               /\ wsPc' = "loop"
          ELSE /\ sent' = sent
               /\ wsPc' = AfterBreak
       /\ sendFailures' = IF SendOk THEN sendFailures ELSE sendFailures + 1
    /\ UNCHANGED <<authVars, timeVars, dashVars, parseVars>>
    /\ UNCHANGED <<rtVars, httpVars, wsCommand, connected, execCount,
                   ready, stream_complete, rdPc, nRead, readLog, wsReply,
                   keepalives, processExit, wsParsed>>

\* asyncio.TimeoutError: a keepalive event is sent. While the reader is
\* running the model allows MaxKeepalive of them
WsTimeout ==
    /\ wsPc = "get"
    /\ WaitForTimesOut
    /\ keepalives < MaxKeepalive \/ stream_complete
    /\ keepalives' = keepalives + 1
    /\ IF SendOk
       THEN /\ sent' = Append(sent, Event("keepalive", 0))
            /\ wsPc' = "loop"
       ELSE /\ sent' = sent
            /\ wsPc' = AfterBreak
    /\ sendFailures' = IF SendOk THEN sendFailures ELSE sendFailures + 1
    /\ UNCHANGED <<authVars, timeVars, dashVars, parseVars>>
    /\ UNCHANGED <<rtVars, httpVars, wsCommand, connected, execCount,
                   ready, output_queue, stream_complete, rdPc, nRead, readLog,
                   wsReply, full_stdout, wsParsed, processExit>>

\* await read_future, then parse_nmap_output on the collected stdout of a
\* scanner, then the complete event. ExecResult of exec_run(stream=True)
\* carries no exit code. When the send raises, the error event of the
\* except branch raises as well and the handler ends
WsJoin ==
    /\ wsPc = "join"
    /\ rdPc = "done"
    /\ wsParsed' = IF is_nmap_command(wsCommand) /\ full_stdout # <<>>
                   THEN Append(wsParsed, full_stdout)
                   ELSE wsParsed
    /\ IF SendOk
       THEN /\ sent' = Append(sent, Event("complete", NoExit))
            /\ wsPc' = "receive"
       ELSE /\ sent' = sent
            /\ wsPc' = "closed"
    /\ sendFailures' = IF SendOk THEN sendFailures ELSE sendFailures + 2
    /\ UNCHANGED <<authVars, timeVars, dashVars, parseVars>>
    /\ UNCHANGED <<rtVars, httpVars, wsCommand, connected, execCount,
                   ready, output_queue, stream_complete, rdPc, nRead, readLog,
                   wsReply, full_stdout, keepalives, processExit>>

\* the client goes away
ClientDisconnect ==
    /\ wsPc \notin {"off", "closed"}
    /\ connected
    /\ connected' = FALSE
    /\ UNCHANGED <<authVars, timeVars, dashVars, parseVars>>
    /\ UNCHANGED <<rtVars, httpVars, wsPc, wsCommand, execCount,
                   ready, output_queue, stream_complete, rdPc, nRead, readLog,
                   sent, wsReply, full_stdout, wsParsed,
                   keepalives, sendFailures,
                   processExit>>

\* the container is stopped or started between two requests of the
\* connection (the handler reads its state only when it accepts a request)
WsContainerFlips == wsPc = "receive" /\ ContainerFlips

\* after websocket.accept()
WsAccepted ==
    /\ wsPc = "receive"
    /\ wsCommand = <<>>
    /\ connected = TRUE
    /\ execCount = 0
    /\ ready = <<>>
    /\ output_queue = <<>>
    /\ stream_complete = FALSE
    /\ rdPc = "idle"
    /\ nRead = 0
    /\ readLog = <<>>
    /\ sent = <<>>
    /\ wsReply = ""
    /\ full_stdout = <<>>
    /\ wsParsed = <<>>
    /\ keepalives = 0
    /\ sendFailures = 0
    /\ processExit = NoExit

InitWS ==
    /\ AuthIdle /\ InitRuntime /\ HttpIdle /\ WsAccepted /\ TimeIdle
    /\ DashIdle /\ ParseIdle

ReaderStep == ReaderRead \/ ReaderEnd \/ ReaderRaise \/ ReaderFinally \/ ReaderReturn

NextWS ==
    \/ WsReject
    \/ WsAccept
    \/ WsReceiveDisconnected
    \/ ReaderRead
    \/ ReaderEnd
    \/ ReaderRaise
    \/ ReaderFinally
    \/ ReaderReturn
    \/ LoopRun
    \/ WsLoop
    \/ WsGet
    \/ WsTimeout
    \/ WsJoin
    \/ ClientDisconnect
    \/ WsContainerFlips

SpecWS == InitWS /\ [][NextWS]_vars

----------------------------------------------------------------------------
(* The three entry points side by side: HTTP requests next to a websocket  *)
(* connection whose commands print nothing. The streaming phase neither    *)
(* reads nor writes the runtime state, the registry or an HTTP handler.    *)

InitEntry ==
    /\ AuthIdle /\ InitRuntime /\ HttpIdle /\ WsAccepted /\ TimeIdle
    /\ DashIdle /\ ParseIdle

NextEntry ==
    \/ \E r \in 1..MaxEntryReq : HttpStep(r)
    \/ ContainerFlips
    \/ WsReject
    \/ WsAccept
    \/ ReaderEnd
    \/ ReaderFinally
    \/ ReaderReturn
    \/ LoopRun
    \/ WsLoop
    \/ WsTimeout
    \/ WsJoin

SpecEntry == InitEntry /\ [][NextEntry]_vars

\* C1: at every entry point (POST /execute, POST /execute/async,
\* /ws/execute), a command that validate_command denies is never handed to
\* exec_run, under any interleaving of the concurrent requests.
C1_DeniedNeverExecuted ==
    \A e \in execCalls : Validated[e.command].allowed

\* C1 witness: a denied command was refused at an HTTP entry point and at
\* the websocket, on which an allowed command was run.
C1_Witness ==
    /\ \E r \in 1..MaxReq : req[r].code = 403
    /\ wsReply = "Command blocked"
    /\ \E e \in execCalls : e.entry = "ws"

\* C6: when the container is absent or its refreshed status is not
\* "running", the request fails with 503 before any exec_run is issued and
\* no registry entry is created for it.
C6_UnavailableFailsClean ==
    /\ \A r \in 1..MaxReq :
          (req[r].pc = "done" /\ (req[r].absent \/ req[r].refreshed = "exited"))
              => (req[r].code = 503 /\ r \notin DOMAIN running_commands)
    /\ \A e \in execCalls : e.refreshed = "running"

----------------------------------------------------------------------------
(* Claims about the stream bridge *)

Last(s) == s[Len(s)]

IsPrefix(s, u) == Len(s) <= Len(u) /\ SubSeq(u, 1, Len(s)) = s

\* the stdout and stderr events among the events sent
Outputs(s) == SelectSeq(s, IsOutput)

TerminalPositions == {k \in 1..Len(sent) : IsTerminal(sent[k])}

\* C7: an execution streamed over /ws/execute gets at most one terminal
\* event (Complete or Error), and nothing is sent after it: after the Error
\* event of a failed reader no Complete follows.
C7_SingleTerminalEvent ==
    /\ Cardinality(TerminalPositions) <= 1
    /\ \A k \in TerminalPositions : k = Len(sent)

C10_OutputOrderPreserved == IsPrefix(Outputs(sent), readLog)

\* C10 witness: two chunks were delivered with a keepalive between them.
C10_Witness ==
    /\ Len(sent) >= 3
    /\ IsOutput(sent[1])
    /\ sent[2].type = "keepalive"
    /\ IsOutput(sent[3])
    /\ sent[1].type # sent[3].type

\* C11: once a send on the connection has raised during a streamed
\* execution, the handler attempts no further send on that connection. Every
\* send after the client has gone raises, so the sends that raised are at
\* most one.
C11_NoSendAfterDisconnectDetected == sendFailures <= 1

\* C13: the complete event that ends a streamed execution carries the code
\* the command's process exited with.
C13_CompleteCarriesExitCode ==
    \A i \in 1..Len(sent) :
        sent[i].type = "complete" => sent[i].data = processExit

----------------------------------------------------------------------------
(* Liveness of the stream bridge: the client stays connected, and while    *)
(* the reader thread, the event loop or the handler coroutine (its         *)
(* keepalive timer included) can take a step, one of them eventually does. *)

NextWSLive ==
    \/ WsReject
    \/ WsAccept
    \/ ReaderStep
    \/ LoopRun
    \/ WsLoop
    \/ WsGet
    \/ WsTimeout
    \/ WsJoin
    \/ WsContainerFlips

SpecWSLive ==
    /\ InitWS
    /\ [][NextWSLive]_vars
    /\ WF_vars(ReaderStep \/ LoopRun \/ WsLoop \/ WsGet \/ WsTimeout \/ WsJoin)

Streaming == wsPc \in {"loop", "get", "join"}

TerminalSent == wsPc = "receive" /\ sent # <<>> /\ IsTerminal(Last(sent))

\* C8: every command accepted on /ws/execute eventually gets a terminal
\* event, when the output stream ends and the client stays connected; also
\* when the command prints nothing and when the reader thread raises.
C8_TerminalEventually == Streaming ~> TerminalSent

\* C8 witness: a command that printed nothing got its Complete event.
C8_Witness ==
    /\ wsPc = "receive"
    /\ execCount > 0
    /\ readLog = <<>>
    /\ Outputs(sent) = <<>>
    /\ Last(sent).type = "complete"

----------------------------------------------------------------------------
(* The keepalive timer. Time passes in steps of TickSeconds while the      *)
(* event loop has nothing to run; a step of a coroutine takes no time,     *)
(* except the exec_run call of _run_command_background, which holds the    *)
(* event loop until its command has ended.                                 *)

\* keepalive_interval = 25  # seconds
keepalive_interval == 25

\* seconds the command started by POST /execute/async runs
BlockSeconds == {MaxBlock}

\* the timeout of the pending wait_for has expired
TimerDue == now - waitStart >= keepalive_interval

\* the event loop sleeps in its selector: no callback is ready, no task can
\* continue, and the pending wait_for has not expired
LoopSleeps ==
    /\ ready = <<>>
    /\ \A r \in 1..MaxReq : req[r].pc \in {"idle", "done"}
    /\ \/ wsPc = "receive"
       \/ wsPc = "get" /\ output_queue = <<>> /\ ~TimerDue
       \/ wsPc = "join" /\ rdPc # "done"

\* TickSeconds pass; the reader thread is blocked on the output stream or
\* has returned
Tick ==
    /\ now + TickSeconds <= MaxTime
    /\ LoopSleeps
    /\ rdPc \in {"idle", "reading", "done"}
    /\ now' = now + TickSeconds
    /\ UNCHANGED <<authVars, rtVars, httpVars, wsVars, waitStart, dashVars,
                   parseVars>>

\* asyncio.TimeoutError is raised when the timeout has expired
WsTimeoutDue == TimerDue /\ WsTimeout

\* the background task of a POST /execute/async request holds the event
\* loop for the d seconds its command runs
BackgroundBlocks ==
    \E d \in BlockSeconds :
        /\ now + d <= MaxTime
        /\ AsyncBackgroundTakes(1, d)

\* the first request on the connection
WsAcceptFirst == execCount = 0 /\ WsAccept

InitTimed ==
    /\ InitWS
    /\ kali_container = "container"
    /\ dockerState = "running"

NextTimed ==
    \/ WsAcceptFirst
    \/ ReaderRead
    \/ ReaderEnd
    \/ ReaderRaise
    \/ ReaderFinally
    \/ ReaderReturn
    \/ LoopRun
    \/ WsLoop
    \/ WsGet
    \/ WsTimeoutDue
    \/ WsJoin
    \/ Tick
    \/ AsyncStart(1)
    \/ BackgroundBlocks

SpecTimed == InitTimed /\ [][NextTimed]_vars

\* C12: while a streamed command is running and the client is connected,
\* the handler never waits for an output chunk for more than
\* keepalive_interval seconds without sending a keepalive event: when no
\* chunk has become available since the wait began, the wait is at most
\* keepalive_interval seconds old.
C12_KeepaliveEvery25Seconds ==
    (/\ wsPc = "get" /\ connected /\ rdPc = "reading"
     /\ output_queue = <<>> /\ ready = <<>>)
        => now - waitStart <= keepalive_interval

----------------------------------------------------------------------------
(* The dashboard's host directory: discover_hosts, the deletes and the     *)
(* completion of a network scan.                                           *)

\* the fields discover_hosts fills when they are empty
MergeFields == {"hostname", "mac", "vendor", "os_type", "os_details"}

\* a port dict without the "protocol" key
NoProtocol == "absent"

\* port_key = (port["port"], port.get("protocol", "tcp"))
PortKey(p) == <<p.port, IF p.protocol = NoProtocol THEN "tcp" ELSE p.protocol>>

P80    == [port |-> 80, protocol |-> "tcp", service |-> "http"]
P80alt == [port |-> 80, protocol |-> NoProtocol, service |-> "http-alt"]
P443   == [port |-> 443, protocol |-> "tcp", service |-> "https"]

\* a host dict after the setdefault calls: a missing field is ""
Host(ip, hostname, other, ports) ==
    [ip |-> ip, hostname |-> hostname, mac |-> other, vendor |-> other,
     os_type |-> other, os_details |-> other, ports |-> ports]

\* the hosts a request may carry: for each of two addresses a host with a
\* name and two ports of one key, and a host with another name, the other
\* fields and another port; and a host without an address
IPs == {"10.0.0.1", "10.0.0.2"}
SampleHosts ==
    {Host(ip, "x", "", <<P80, P80alt>>) : ip \in IPs}
    \cup {Host(ip, "y", "m", <<P443>>) : ip \in IPs}
    \cup {Host("", "x", "", <<>>)}

\* request.hosts
RequestLists ==
    UNION {[1..n -> SampleHosts] : n \in 1..MaxHosts}

\* next((h for h in hosts_list if h["ip"] == host["ip"]), None), as an
\* index; 0 stands for None
FirstWithIp(hosts_list, ip) ==
    LET S == {i \in 1..Len(hosts_list) : hosts_list[i].ip = ip}
    IN IF S = {} THEN 0 ELSE Min(S)

\* the port merge, the mutation "every incoming port is appended"
MergePortsAppendAll(existing, incoming) == existing \o incoming

\* the port merge: existing_ports is computed once, before the loop, and
\* every incoming port whose key is not in it is appended
MergePorts(existing, incoming) ==
    LET existing_ports == {PortKey(existing[i]) : i \in 1..Len(existing)}
        new(p) == PortKey(p) \notin existing_ports
    IN existing \o SelectSeq(incoming, new)

\* the field update, the mutation "the incoming value wins"
FillFieldOverwrite(existing, host, field) ==
    IF host[field] # "" THEN host[field] ELSE existing[field]

\* if host.get(field) and not existing.get(field):
\*     existing[field] = host[field]
FillField(existing, host, field) ==
    IF host[field] # "" /\ existing[field] = ""
    THEN host[field] ELSE existing[field]

\* the update of an existing host dict
MergeInto(existing, host) ==
    [f \in DOMAIN existing |->
        IF f = "ports" THEN MergePorts(existing.ports, host.ports)
        ELSE IF f \in MergeFields THEN FillField(existing, host, f)
        ELSE existing[f]]

\* one round of the loop over request.hosts. Without a project hosts_list
\* is network_hosts itself, so a new host is appended to it twice; the two
\* entries are one dict, and so are all entries of a list that have one IP:
\* an update of the first is an update of each
MergeHost(hosts_list, host, project) ==
    IF host.ip = "" THEN hosts_list
    ELSE IF FirstWithIp(hosts_list, host.ip) # 0
    THEN LET existing == hosts_list[FirstWithIp(hosts_list, host.ip)]
             merged == MergeInto(existing, host)
         IN [j \in 1..Len(hosts_list) |->
                IF hosts_list[j].ip = host.ip THEN merged
                ELSE hosts_list[j]]
    ELSE IF project # "none"
    THEN Append(hosts_list, host)
    ELSE Append(Append(hosts_list, host), host)

\* the loop of discover_hosts over request.hosts, with its counters
RECURSIVE DiscoverLoop(_, _, _)
DiscoverLoop(acc, hosts, project) ==
    IF hosts = <<>> THEN acc
    ELSE LET host == Head(hosts)
             known == FirstWithIp(acc.list, host.ip) # 0
         IN DiscoverLoop(
                [list |-> MergeHost(acc.list, host, project),
                 added |-> acc.added +
                     (IF host.ip # "" /\ ~known THEN 1 ELSE 0),
                 updated |-> acc.updated +
                     (IF host.ip # "" /\ known THEN 1 ELSE 0)],
                Tail(hosts), project)

\* discover_hosts: the list and the counters of the response
discover_hosts(hosts_list, hosts, project) ==
    DiscoverLoop([list |-> hosts_list, added |-> 0, updated |-> 0],
                 hosts, project)

\* execute_network_scan_with_progress: existing.update(host), or append
ScanMergeHost(hosts_list, host) ==
    IF FirstWithIp(hosts_list, host.ip) # 0
    THEN [j \in 1..Len(hosts_list) |->
             IF hosts_list[j].ip = host.ip THEN host ELSE hosts_list[j]]
    ELSE Append(hosts_list, host)

\* the list the handlers work on: the project's when one is active
Collection ==
    IF current_project_id # "none" THEN project_hosts ELSE network_hosts

\* the handler stores its list
Store(hosts_list) ==
    IF current_project_id # "none"
    THEN project_hosts' = hosts_list /\ UNCHANGED network_hosts
    ELSE network_hosts' = hosts_list /\ UNCHANGED project_hosts

\* POST /api/network/hosts/discover: the handler has no await, so the
\* event loop runs it from the request to the response in one piece
DiscoverHosts(r) ==
    /\ dReq[r].pc \in {"idle", "done"}
    /\ \E hosts \in RequestLists :
          \E res \in {discover_hosts(Collection, hosts, current_project_id)} :
             /\ Store(res.list)
             /\ dReq' = [dReq EXCEPT ![r] =
                    [pc |-> "done", hosts |-> <<>>, i |-> Len(hosts),
                     added |-> res.added, updated |-> res.updated,
                     overlapped |-> FALSE]]
    /\ UNCHANGED <<executorVars, pipeline, current_project_id>>

\* DELETE /api/network/hosts
clear_network_hosts ==
    /\ Collection # <<>>
    /\ Store(<<>>)
    /\ UNCHANGED <<executorVars, pipeline, current_project_id, dReq>>

\* DELETE /api/network/hosts/{ip}; 404 when no host has the address
delete_network_host(ip) ==
    /\ FirstWithIp(Collection, ip) # 0
    /\ LET keep(h) == h.ip # ip IN Store(SelectSeq(Collection, keep))
    /\ UNCHANGED <<executorVars, pipeline, current_project_id, dReq>>

\* execute_network_scan_with_progress, after the scan has answered: the
\* parsed hosts go to the global list, whether a project is active or not
ScanCompletes ==
    /\ \E host \in {h \in SampleHosts : h.ip # ""} :
          network_hosts' = ScanMergeHost(network_hosts, host)
    /\ UNCHANGED <<executorVars, pipeline, project_hosts, current_project_id, dReq>>

\* a network scan run while no project is selected
ScanWithoutProject == current_project_id = "none" /\ ScanCompletes

InitDash ==
    /\ AuthIdle /\ RtIdle /\ HttpIdle /\ WsIdle /\ TimeIdle /\ ParseIdle
    /\ network_hosts = <<>>
    /\ project_hosts = <<>>
    /\ current_project_id \in {"none", "p1"}
    /\ dReq = [r \in 1..MaxDiscover |-> IdleDiscover]
    /\ pipeline = NoPipeline

NextDash ==
    \/ DiscoverHosts(1)
    \/ clear_network_hosts
    \/ \E ip \in IPs : delete_network_host(ip)
    \/ ScanWithoutProject

SpecDash == InitDash /\ [][NextDash]_vars

\* no two entries of the list have one IP
UniqueIps(hosts_list) ==
    \A i, j \in 1..Len(hosts_list) :
        hosts_list[i].ip = hosts_list[j].ip => i = j

\* C14: no two entries of the host collection (the project's list, or
\* network_hosts when no project is selected) have the same IP.
C14_NoTwoEntriesShareIp == UniqueIps(Collection)

\* C15: in discover_hosts, for every incoming host whose IP is already
\* present and every field among hostname, mac, vendor, os_type and
\* os_details: an existing non-empty value is unchanged after the merge, and
\* an existing empty value takes the incoming value when that is not empty.
C15_NonDestructiveFill ==
    \A host \in SampleHosts :
        LET i == FirstWithIp(Collection, host.ip)
            after == MergeHost(Collection, host, current_project_id)
        IN (host.ip # "" /\ i # 0) =>
              \A f \in MergeFields :
                  /\ Collection[i][f] # "" => after[i][f] = Collection[i][f]
                  /\ (Collection[i][f] = "" /\ host[f] # "")
                        => after[i][f] = host[f]

\* C15 witness: a request updated a host that had a name and no MAC
\* address with a host of another name and a MAC address; the name was kept
\* and the MAC address filled in.
C15_Witness ==
    /\ dReq[1].pc = "done" /\ dReq[1].updated > 0
    /\ \E i \in 1..Len(Collection) :
          Collection[i].hostname = "x" /\ Collection[i].mac = "m"

\* host dict `after` keeps the non-empty string fields and the ports of
\* host dict `before`
KeepsWhatWasKnown(before, after) ==
    /\ \A f \in MergeFields : before[f] # "" => after[f] = before[f]
    /\ \A k \in 1..Len(before.ports) :
          \E n \in 1..Len(after.ports) : after.ports[n] = before.ports[k]

\* C16: every operation that records a new sighting of known IPs, the
\* completion of a network scan as well as discover_hosts, leaves each
\* host's non-empty string fields unchanged and keeps every port the host
\* already had.
C16_EverySightingNonDestructive ==
    [][(ScanCompletes \/ DiscoverHosts(1)) =>
          \A i \in 1..Len(Collection) :
              /\ i <= Len(Collection')
              /\ KeepsWhatWasKnown(Collection[i], Collection'[i])]_vars

\* the host collection after discover_hosts has handled request.hosts
AfterDiscover(hosts_list, hosts) ==
    discover_hosts(hosts_list, hosts, current_project_id).list

\* C17: for every state of the host collection and every list of hosts,
\* lists that name one IP several times included, calling discover_hosts
\* with the list twice in a row leaves the collection as calling it once.
C17_DiscoverIdempotent ==
    \A hosts \in RequestLists :
        \A once \in {AfterDiscover(Collection, hosts)} :
            AfterDiscover(once, hosts) = once

\* C17 witness: a request that named one IP twice was handled: one host was
\* added, one updated, and the collection holds that IP only.
C17_Witness ==
    /\ dReq[1].pc = "done" /\ dReq[1].added = 1 /\ dReq[1].updated = 1
    /\ Collection # <<>>
    /\ \A i \in 1..Len(Collection) : Collection[i].ip = Collection[1].ip

\* no two ports of the list have one (number, protocol) key
UniquePortKeys(ports) ==
    \A k, n \in 1..Len(ports) : PortKey(ports[k]) = PortKey(ports[n]) => k = n

\* C18: within every stored host no two ports share the same (number,
\* protocol) key, also when an incoming host lists a key more than once or
\* is inserted for the first time.
C18_PortKeysUnique ==
    \A i \in 1..Len(Collection) : UniquePortKeys(Collection[i].ports)

----------------------------------------------------------------------------
(* discover_hosts requests handled concurrently by the event loop *)

\* whether the coroutine is suspended between two hosts of its loop, the
\* mutation "an await in the loop body"
SuspendsBetweenHostsAlways == TRUE

\* whether the coroutine is suspended between two hosts of its loop:
\* discover_hosts holds no await, and save_project writes synchronously
SuspendsBetweenHosts == FALSE

\* the requests of the concurrent clients: MaxHosts hosts with an address,
\* no two in a row with the same one
ConcLists ==
    {hosts \in RequestLists :
        /\ Len(hosts) = MaxHosts
        /\ \A i \in 1..Len(hosts) : hosts[i].ip # ""
        /\ \A i \in 1..(Len(hosts) - 1) : hosts[i].ip # hosts[i + 1].ip}

\* a request arrives; `overlapped` records that another one was in flight
DiscoverReceive(r) ==
    /\ dReq[r].pc = "idle"
    /\ \E hosts \in ConcLists :
          dReq' = [dReq EXCEPT ![r] =
              [pc |-> "run", hosts |-> hosts, i |-> 0,
               added |-> 0, updated |-> 0,
               overlapped |-> \E q \in 1..MaxDiscover : dReq[q].pc = "run"]]
    /\ UNCHANGED <<executorVars, pipeline, network_hosts, project_hosts,
                   current_project_id>>

\* the event loop runs the handler of request r up to its next suspension
DiscoverRun(r) ==
    /\ dReq[r].pc = "run"
    /\ LET rq == dReq[r]
           k == IF SuspendsBetweenHosts THEN 1 ELSE Len(rq.hosts) - rq.i
       IN \E res \in {DiscoverLoop(
                  [list |-> Collection, added |-> rq.added,
                   updated |-> rq.updated],
                  SubSeq(rq.hosts, rq.i + 1, rq.i + k),
                  current_project_id)} :
             /\ Store(res.list)
             /\ dReq' = [dReq EXCEPT ![r] =
                    [rq EXCEPT !.pc = IF rq.i + k = Len(rq.hosts)
                                      THEN "done" ELSE "run",
                               !.i = rq.i + k,
                               !.added = res.added,
                               !.updated = res.updated]]
    /\ UNCHANGED <<executorVars, pipeline, current_project_id>>

NextDashConc ==
    \E r \in 1..MaxDiscover :
        \/ DiscoverReceive(r)
        \/ DiscoverRun(r)

SpecDashConc == InitDash /\ [][NextDashConc]_vars

\* the collections that handling the requests of rs one after another, in
\* some order, leaves
RECURSIVE SequentialResults(_, _)
SequentialResults(hosts_list, rs) ==
    IF rs = {} THEN {hosts_list}
    ELSE UNION {SequentialResults(AfterDiscover(hosts_list, dReq[r].hosts),
                                  rs \ {r}) : r \in rs}

\* C19: when several discover_hosts requests are handled concurrently, the
\* host collection they leave equals the result of handling them one after
\* another in some order.
C19_ConcurrentDiscoverSerializable ==
    (\A r \in 1..MaxDiscover : dReq[r].pc \in {"idle", "done"}) =>
        Collection \in
            SequentialResults(<<>>,
                {r \in 1..MaxDiscover : dReq[r].pc = "done"})

\* C19 witness: two requests that were in flight together and that name the
\* same IP with different names have both been handled.
C19_Witness ==
    /\ dReq[1].pc = "done" /\ dReq[2].pc = "done"
    /\ dReq[1].overlapped \/ dReq[2].overlapped
    /\ \E i \in 1..Len(dReq[1].hosts), j \in 1..Len(dReq[2].hosts) :
          /\ dReq[1].hosts[i].ip = dReq[2].hosts[j].ip
          /\ dReq[1].hosts[i].hostname # dReq[2].hosts[j].hostname

----------------------------------------------------------------------------
(* The executor's nmap parser: parse_nmap_output, parse_nmap_xml,          *)
(* parse_nmap_text and infer_os_from_ports.                                *)

\* `needle in s.lower()`, for a needle in lower case: re_search compares
\* the characters after case folding
Contains(needle, s) == re_search(Lit(needle), s)

\* port_nums = {p["port"] for p in ports}
port_nums(ports) == {ports[k].port : k \in 1..Len(ports)}

\* any(w in p for p in products), for one of the words
AnyProduct(ports, words) ==
    \E k \in 1..Len(ports) : \E w \in words : Contains(w, ports[k].product)

\* the Linux score of infer_os_from_ports, the mutation that counts port 22
\* for one point and no product banner
linux_score_port_only(ports) == IF 22 \in port_nums(ports) THEN 1 ELSE 0

\* infer_os_from_ports: linux_score
linux_score(ports) ==
    (IF 22 \in port_nums(ports) THEN 3 ELSE 0)
    + (IF AnyProduct(ports, {<<"o","p","e","n","s","s","h">>,
                             <<"l","i","n","u","x">>}) THEN 5 ELSE 0)
    + (IF AnyProduct(ports, {<<"a","p","a","c","h","e">>,
                             <<"n","g","i","n","x">>}) THEN 2 ELSE 0)

\* infer_os_from_ports: windows_score
windows_score(ports) ==
    (IF 135 \in port_nums(ports) THEN 5 ELSE 0)
    + (IF 3389 \in port_nums(ports) THEN 3 ELSE 0)
    + (IF 5985 \in port_nums(ports) \/ 5986 \in port_nums(ports)
       THEN 5 ELSE 0)
    + (IF AnyProduct(ports, {<<"m","i","c","r","o","s","o","f","t">>,
                             <<"w","i","n","d","o","w","s">>})
       THEN 5 ELSE 0)
    + (IF 445 \in port_nums(ports) THEN 1 ELSE 0)
    + (IF 139 \in port_nums(ports) THEN 1 ELSE 0)

\* infer_os_from_ports: the higher score, then the ports of network devices
\* and printers
infer_os_from_ports(ports) ==
    IF linux_score(ports) > windows_score(ports) THEN "Linux"
    ELSE IF windows_score(ports) > linux_score(ports) THEN "Windows"
    ELSE IF 161 \in port_nums(ports) \/ 162 \in port_nums(ports)
    THEN "Network Device"
    ELSE IF 9100 \in port_nums(ports) \/ 631 \in port_nums(ports)
    THEN "Printer"
    ELSE ""

\* the ports of the list whose state is "open"
OpenPorts(ports) ==
    LET open(p) == p.state = "open" IN SelectSeq(ports, open)

\* the condition under which parse_nmap_xml emits a host, the mutation
\* "every host that is up and has an address"
XmlHostIncludedAnyUp(host) == host.ip # ""

\* if host["ip"] and (host["ports"] or host["mac"])
XmlHostIncluded(host) ==
    host.ip # "" /\ (host.ports # <<>> \/ host.mac # "")

\* parse_nmap_xml on one <host> element without <osmatch>: the host dict
XmlHost(elem) ==
    LET ports == OpenPorts(elem.ports)
    IN [ip |-> elem.ip, hostname |-> elem.hostname, mac |-> elem.mac,
        vendor |-> elem.vendor,
        os_type |-> IF ports # <<>> THEN infer_os_from_ports(ports) ELSE "",
        os_details |-> "", ports |-> ports]

\* parse_nmap_xml: the hosts of the <host> elements that are up and pass
\* the condition; a document that does not parse gives no host
RECURSIVE XmlHosts(_)
XmlHosts(elems) ==
    IF elems = <<>> THEN <<>>
    ELSE LET elem == Head(elems)
         IN (IF elem.state = "up" /\ XmlHostIncluded(XmlHost(elem))
             THEN <<XmlHost(elem)>> ELSE <<>>)
            \o XmlHosts(Tail(elems))

parse_nmap_xml(xml) ==
    IF xml.kind = "malformed" THEN <<>> ELSE XmlHosts(xml.hosts)

\* save_host_if_has_open_ports; current_host is <<>> for None
save_host_if_has_open_ports(hosts, current_host) ==
    IF current_host # <<>> /\ current_host[1].ip # ""
           /\ current_host[1].ports # <<>>
    THEN Append(hosts,
             [current_host[1] EXCEPT !.os_type =
                 IF @ = "" THEN infer_os_from_ports(current_host[1].ports)
                 ELSE @])
    ELSE hosts

\* the port lines parse_nmap_text keeps, the mutation "of any state"
PortRetainedAnyState(port) == TRUE

\* if port_match and port_match.group(3) == "open"
PortRetained(port) == port.state = "open"

\* the body of the loop of parse_nmap_text for one line, on the pair of
\* hosts and current_host
TextLine(st, line) ==
    IF line.kind = "host"
    THEN [hosts |-> save_host_if_has_open_ports(st.hosts, st.current_host),
          current_host |->
              <<[ip |-> line.ip, hostname |-> "", os_type |-> "",
                 os_details |-> "", ports |-> <<>>, mac |-> "",
                 vendor |-> ""]>>]
    ELSE IF st.current_host = <<>> THEN st
    ELSE IF line.kind = "mac"
    THEN [st EXCEPT !.current_host[1].mac = line.mac,
                    !.current_host[1].vendor = line.vendor]
    ELSE IF line.kind = "port" /\ PortRetained(line.port)
    THEN [st EXCEPT !.current_host[1].ports = Append(@, line.port)]
    ELSE st

RECURSIVE TextLines(_, _)
TextLines(st, lines) ==
    IF lines = <<>> THEN st
    ELSE TextLines(TextLine(st, Head(lines)), Tail(lines))

\* parse_nmap_text: the loop over the lines, then the last host
parse_nmap_text(lines) ==
    LET st == TextLines([hosts |-> <<>>, current_host |-> <<>>], lines)
    IN save_host_if_has_open_ports(st.hosts, st.current_host)

\* parse_nmap_output: the XML form when the output holds an XML document
\* and that gives hosts, the text form otherwise. The lines of an XML
\* document match no pattern of the text form
parse_nmap_output(stdout) ==
    IF stdout.xml.kind # "none" /\ parse_nmap_xml(stdout.xml) # <<>>
    THEN parse_nmap_xml(stdout.xml)
    ELSE parse_nmap_text(stdout.text)

\* the <port> elements of the sample documents
PortOpen22 ==
    [port |-> 22, protocol |-> "tcp", state |-> "open", service |-> "ssh",
     product |-> <<"O","p","e","n","S","S","H">>]

PortClosed445 ==
    [port |-> 445, protocol |-> "tcp", state |-> "closed",
     service |-> "microsoft-ds", product |-> <<>>]

XmlPortLists == {<<>>, <<PortOpen22>>, <<PortClosed445>>}

\* the <host> elements of the sample documents: the hosts that are up, and
\* one that is down with an address, a MAC address and an open port
XmlHostElems ==
    [state : {"up"}, ip : {""} \cup IPs, hostname : {""},
     mac : {"", "AA:BB:CC:00:11:22"}, vendor : {""}, ports : XmlPortLists]
    \cup [state : {"down"}, ip : {"10.0.0.1"}, hostname : {""},
          mac : {"AA:BB:CC:00:11:22"}, vendor : {""},
          ports : {<<PortOpen22>>}]

SeqsUpTo(S, n) == UNION {[1..k -> S] : k \in 0..n}

XmlDocs ==
    {[kind |-> "doc", hosts |-> hs] : hs \in SeqsUpTo(XmlHostElems, MaxXmlHosts)}

NoXml == [kind |-> "none", hosts |-> <<>>]

MalformedXml == [kind |-> "malformed", hosts |-> <<>>]

\* the lines of the sample text reports, by the pattern they match
ReportLine(kind, ip, mac, port) ==
    [kind |-> kind, ip |-> ip, mac |-> mac, vendor |-> "", port |-> port]

ReportLines ==
    {ReportLine("host", ip, "", PortOpen22) : ip \in IPs}
    \cup {ReportLine("mac", "", "AA:BB:CC:00:11:22", PortOpen22),
          ReportLine("port", "", "", PortOpen22),
          ReportLine("port", "", "", PortClosed445),
          ReportLine("other", "", "", PortOpen22)}

TextReports == SeqsUpTo(ReportLines, MaxLines)

\* the outputs of nmap the parser is given: an XML document, or a text
\* report alone, after a malformed document or after a document of at most
\* one host
Stdouts ==
    {[xml |-> d, text |-> <<>>] : d \in XmlDocs}
    \cup {[xml |-> d, text |-> t] :
            d \in {NoXml, MalformedXml}
                  \cup {x \in XmlDocs : Len(x.hosts) <= 1},
            t \in TextReports}

\* the call of parse_nmap_output on the output of a finished nmap command
ParseNmapOutput ==
    /\ parsePc = "input"
    /\ parsedHosts' = parse_nmap_output(nmapStdout)
    /\ parsePc' = "parsed"
    /\ UNCHANGED <<authVars, rtVars, httpVars, wsVars, timeVars, dashVars,
                   nmapStdout>>

InitParse ==
    /\ AuthIdle /\ RtIdle /\ HttpIdle /\ WsIdle /\ TimeIdle /\ DashIdle
    /\ nmapStdout \in Stdouts
    /\ parsedHosts = <<>>
    /\ parsePc = "input"

NextParse == ParseNmapOutput

SpecParse == InitParse /\ [][NextParse]_vars

\* C20: no host that parse_nmap_output emits is without an open port and
\* without a MAC address
C20_EmittedHostHasOpenPortOrMac ==
    parsePc = "parsed" =>
        \A i \in 1..Len(parsedHosts) :
            \/ \E k \in 1..Len(parsedHosts[i].ports) :
                   parsedHosts[i].ports[k].state = "open"
            \/ parsedHosts[i].mac # ""

\* C20: an XML document reported a host that is up, has an address, a closed
\* port and no MAC address; the parser emitted another host and not this one
C20_Witness ==
    /\ parsePc = "parsed"
    /\ parsedHosts # <<>>
    /\ nmapStdout.xml.kind = "doc"
    /\ \E i \in 1..Len(nmapStdout.xml.hosts) :
           LET elem == nmapStdout.xml.hosts[i]
           IN /\ elem.state = "up" /\ elem.ip # "" /\ elem.mac = ""
              /\ elem.ports = <<PortClosed445>>
              /\ \A j \in 1..Len(parsedHosts) : parsedHosts[j].ip # elem.ip

\* the addresses of the hosts a text report gives a MAC address for: a MAC
\* line follows the host's report line before the next report line
TextMacIps(lines) ==
    {lines[i].ip : i \in
        {i \in 1..Len(lines) :
            /\ lines[i].kind = "host"
            /\ \E j \in (i + 1)..Len(lines) :
                  /\ lines[j].kind = "mac"
                  /\ \A k \in (i + 1)..(j - 1) : lines[k].kind # "host"}}

\* the addresses of the hosts an XML document reports as up with an
\* address and a MAC address
XmlMacIps(elems) ==
    {elems[i].ip : i \in
        {i \in 1..Len(elems) :
            /\ elems[i].state = "up"
            /\ elems[i].ip # ""
            /\ elems[i].mac # ""}}

EmittedIps == {parsedHosts[i].ip : i \in 1..Len(parsedHosts)}

\* C21: in the XML form and in the text form, every reported host with an
\* IP and a MAC address is emitted, also without an open port
C21_MacHostsEmitted ==
    parsePc = "parsed" =>
        /\ nmapStdout.xml.kind = "doc" =>
              XmlMacIps(nmapStdout.xml.hosts) \subseteq EmittedIps
        /\ nmapStdout.xml.kind = "none" =>
              TextMacIps(nmapStdout.text) \subseteq EmittedIps

----------------------------------------------------------------------------
(* The inference of the system from the open ports, on a report of one     *)
(* host with a MAC address and no OS line.                                 *)

OpenPort(port, service, product) ==
    [port |-> port, protocol |-> "tcp", state |-> "open",
     service |-> service, product |-> product]

Port445 == OpenPort(445, "microsoft-ds", <<>>)

Port445Samba ==
    OpenPort(445, "netbios-ssn", <<"S","a","m","b","a"," ","s","m","b","d">>)

\* the <port> elements of the host
InferPorts ==
    {PortOpen22, Port445, Port445Samba,
     OpenPort(22, "ssh", <<>>), OpenPort(3389, "ms-wbt-server", <<>>),
     OpenPort(80, "http", <<"A","p","a","c","h","e">>),
     OpenPort(139, "netbios-ssn", <<>>), OpenPort(161, "snmp", <<>>),
     OpenPort(9100, "jetdirect", <<>>), OpenPort(8080, "http-proxy", <<>>)}

InferPortLists ==
    UNION {[1..n -> InferPorts] : n \in 1..MaxInferPorts}

\* the report: one host that is up, with the MAC address of the example
InferReport(ports) ==
    [xml |-> [kind |-> "doc",
              hosts |-> <<[state |-> "up", ip |-> "10.0.0.1",
                           hostname |-> "", mac |-> "AA:BB:CC:DD:EE:FF",
                           vendor |-> "", ports |-> ports]>>],
     text |-> <<>>]

InitInfer ==
    /\ AuthIdle /\ RtIdle /\ HttpIdle /\ WsIdle /\ TimeIdle /\ DashIdle
    /\ nmapStdout \in {InferReport(ports) : ports \in InferPortLists}
    /\ parsedHosts = <<>>
    /\ parsePc = "input"

SpecInfer == InitInfer /\ [][NextParse]_vars

\* the open ports of the reported host, and the system the parser gave it
ReportedPorts == nmapStdout.xml.hosts[1].ports

InferredOs == parsedHosts[1].os_type

\* C22: when the Linux and the Windows score differ the side with the higher
\* score is returned; the host with only port 445 (microsoft-ds, no product)
\* is Windows, and with port 22 of product OpenSSH in addition it is Linux
C22_HigherScoreWins ==
    parsePc = "parsed" =>
        /\ linux_score(ReportedPorts) > windows_score(ReportedPorts)
              => InferredOs = "Linux"
        /\ windows_score(ReportedPorts) > linux_score(ReportedPorts)
              => InferredOs = "Windows"
        /\ ReportedPorts = <<Port445>> => InferredOs = "Windows"
        /\ ReportedPorts = <<Port445, PortOpen22>> => InferredOs = "Linux"

\* C22 witness: the host with port 445 and port 22 of OpenSSH was parsed and
\* classified Linux
C22_Witness ==
    /\ parsePc = "parsed"
    /\ ReportedPorts = <<Port445, PortOpen22>>
    /\ InferredOs = "Linux"

\* C23: when the Linux score equals the Windows score the inferred system
\* is unknown (empty), whatever other ports are open
C23_TieIsUnknown ==
    (parsePc = "parsed"
        /\ linux_score(ReportedPorts) = windows_score(ReportedPorts))
    => InferredOs = ""

\* C24: a host with port 445 open whose product banner names Samba is
\* classified Linux
C24_SambaIsLinux ==
    (parsePc = "parsed"
        /\ 445 \in port_nums(ReportedPorts)
        /\ AnyProduct(ReportedPorts, {<<"s","a","m","b","a">>}))
    => InferredOs = "Linux"

----------------------------------------------------------------------------
(* The registry of the asynchronous executions.                            *)

\* the entry of an id the caller of POST /execute/async was given exists
AnsweredIdsRegistered ==
    \A r \in 1..MaxReq :
        (req[r].kind = "async" /\ req[r].code = 200)
            => r \in DOMAIN running_commands

\* one step of the registry: an entry is created running, its status
\* changes once, from running to completed or failed, together with
\* completed_at, and an entry with completed_at does not change
RegistryStep ==
    /\ \A r \in DOMAIN running_commands' \ DOMAIN running_commands :
          /\ running_commands'[r].status = "running"
          /\ ~running_commands'[r].completed_at
    /\ \A r \in DOMAIN running_commands :
          /\ r \in DOMAIN running_commands'
          /\ running_commands[r].completed_at
                => running_commands'[r] = running_commands[r]
          /\ running_commands'[r].status # running_commands[r].status
                => /\ running_commands[r].status = "running"
                   /\ running_commands'[r].status \in {"completed", "failed"}
          /\ (running_commands'[r].status # running_commands[r].status)
                <=> (running_commands'[r].completed_at
                        /\ ~running_commands[r].completed_at)

\* C25: the entry of an asynchronous execution exists, running, before its
\* id is returned; its status changes at most once, from running to
\* completed or failed, and completed_at is set at that moment; after that
\* no field of the entry changes
C25_RegistryEntryLifecycle ==
    [](AnsweredIdsRegistered) /\ [][RegistryStep]_vars

\* C25 witness: one execution has completed and another has failed
C25_Witness ==
    /\ \E r \in DOMAIN running_commands :
          /\ running_commands[r].status = "completed"
          /\ running_commands[r].completed_at
    /\ \E r \in DOMAIN running_commands :
          /\ running_commands[r].status = "failed"
          /\ running_commands[r].completed_at

----------------------------------------------------------------------------
(* The chunks of a streamed execution and its complete event.              *)

\* C26: when the client stays connected, every stdout/stderr chunk the
\* reader thread read has been sent when the complete event is sent
C26_EveryChunkSentBeforeComplete ==
    (connected /\ sent # <<>> /\ Last(sent).type = "complete") =>
        \A k \in 1..Len(readLog) :
            \E n \in 1..Len(sent) : sent[n] = readLog[k]

\* the stdout chunks among the items, in their order
RECURSIVE StdoutChunks(_)
StdoutChunks(items) ==
    IF items = <<>> THEN <<>>
    ELSE (IF Head(items).type = "stdout" THEN <<Head(items).data>> ELSE <<>>)
         \o StdoutChunks(Tail(items))

\* C27: when the complete event of a streamed nmap or masscan command is
\* sent, the parser has run exactly once, on all stdout chunks of the
\* execution in their order (an execution without stdout has nothing to
\* parse); for another command it has not run
C27_ParserOnceOnAllStdout ==
    (sent # <<>> /\ Last(sent).type = "complete") =>
        IF is_nmap_command(wsCommand) /\ StdoutChunks(readLog) # <<>>
        THEN wsParsed = <<StdoutChunks(readLog)>>
        ELSE wsParsed = <<>>

----------------------------------------------------------------------------
(* The event loop and the blocking calls of the runtime.                   *)

\* C28: every blocking runtime call runs on the worker pool, so the event
\* loop is never held by one: time passes only while the event loop is free
\* to serve other requests, a clock step at a time
C28_EventLoopNeverHeld == [][now' - now <= TickSeconds]_vars

----------------------------------------------------------------------------
(* The attribution of the lines of a text report to its hosts.             *)

\* the positions of the host-report lines from position i on, in order
RECURSIVE HostLinesFrom(_, _)
HostLinesFrom(lines, i) ==
    IF i > Len(lines) THEN <<>>
    ELSE (IF lines[i].kind = "host" THEN <<i>> ELSE <<>>)
         \o HostLinesFrom(lines, i + 1)

\* the lines between the host-report line at position i and the next
\* host-report line, or the end of the report
Section(lines, i) ==
    LET later == {j \in (i + 1)..Len(lines) : lines[j].kind = "host"}
        last == IF later = {} THEN Len(lines)
                ELSE (CHOOSE j \in later : \A k \in later : j <= k) - 1
    IN SubSeq(lines, i + 1, last)

\* the ports of the port lines of state "open" among the lines, in order
RECURSIVE OpenPortLines(_)
OpenPortLines(lines) ==
    IF lines = <<>> THEN <<>>
    ELSE (IF Head(lines).kind = "port" /\ Head(lines).port.state = "open"
          THEN <<Head(lines).port>> ELSE <<>>)
         \o OpenPortLines(Tail(lines))

\* the MAC address of the last MAC line among the lines, "" without one
SectionMac(lines) ==
    LET macs == {k \in 1..Len(lines) : lines[k].kind = "mac"}
    IN IF macs = {} THEN ""
       ELSE lines[CHOOSE k \in macs : \A n \in macs : n <= k].mac

----------------------------------------------------------------------------
(* The recon pipeline of the dashboard: start_recon_pipeline,              *)
(* execute_pipeline and cancel_pipeline, for one pipeline.                 *)

\* the stages of start_recon_pipeline, by their names
Stages(kind, include_vuln_scan, include_web_enum) ==
    (IF kind = "quick" THEN <<"Host Discovery", "Quick Port Scan">>
     ELSE IF kind = "stealth" THEN <<"Stealth Discovery", "Slow Port Scan">>
     ELSE IF kind = "full"
     THEN <<"Host Discovery", "Full Port Scan", "Service Detection",
            "OS Detection">>
     ELSE <<"Host Discovery", "Top Ports Scan", "Service Detection",
            "OS Detection">>)
    \o (IF include_vuln_scan THEN <<"Vulnerability Scan">> ELSE <<>>)
    \o (IF include_web_enum THEN <<"Web Enumeration">> ELSE <<>>)

\* POST /api/recon/pipeline: the entry of active_pipelines and the task.
\* The task runs up to the request of its first stage before the event loop
\* takes another request
start_recon_pipeline ==
    /\ pipeline.pc = "none"
    /\ \E kind \in {"quick", "stealth", "full", "standard"},
          include_vuln_scan \in BOOLEAN, include_web_enum \in BOOLEAN :
          pipeline' =
              [pc |-> "request", status |-> "running",
               stages |-> Stages(kind, include_vuln_scan, include_web_enum),
               current_stage |-> 0, i |-> 0, results |-> <<>>,
               cancelled |-> FALSE, late |-> FALSE]
    /\ UNCHANGED <<executorVars, network_hosts, project_hosts,
                   current_project_id, dReq>>

\* execute_pipeline from the head of its loop to the request of the next
\* stage; `late` records a stage started after the pipeline was cancelled
PipelineStage ==
    /\ pipeline.pc = "loop"
    /\ pipeline.i < Len(pipeline.stages)
    /\ pipeline' = [pipeline EXCEPT !.pc = "request",
                                    !.current_stage = pipeline.i,
                                    !.late = @ \/ pipeline.cancelled]
    /\ UNCHANGED <<executorVars, network_hosts, project_hosts,
                   current_project_id, dReq>>

\* the request of the stage ends: with status 200, with another status, or
\* with an exception. The result of POST /execute has no "parsed" field, so
\* no host is taken from it
PipelineResponse ==
    /\ pipeline.pc = "request"
    /\ \E success \in BOOLEAN :
          pipeline' = [pipeline EXCEPT
              !.pc = "loop",
              !.i = @ + 1,
              !.results = Append(@,
                  [stage |-> pipeline.stages[pipeline.i + 1],
                   success |-> success])]
    /\ UNCHANGED <<executorVars, network_hosts, project_hosts,
                   current_project_id, dReq>>

\* execute_pipeline after its loop: the pipeline is marked complete
PipelineComplete ==
    /\ pipeline.pc = "loop"
    /\ pipeline.i = Len(pipeline.stages)
    /\ pipeline' = [pipeline EXCEPT !.pc = "done", !.status = "completed"]
    /\ UNCHANGED <<executorVars, network_hosts, project_hosts,
                   current_project_id, dReq>>

\* DELETE /api/recon/pipeline/{pipeline_id}; `cancelled` records that the
\* pipeline was running when it was cancelled
cancel_pipeline ==
    /\ pipeline.pc # "none"
    /\ pipeline' = [pipeline EXCEPT
           !.status = "cancelled",
           !.cancelled = @ \/ pipeline.status = "running"]
    /\ UNCHANGED <<executorVars, network_hosts, project_hosts,
                   current_project_id, dReq>>

NextPipeline ==
    \/ start_recon_pipeline
    \/ PipelineStage
    \/ PipelineResponse
    \/ PipelineComplete
    \/ cancel_pipeline

SpecPipeline == InitDash /\ [][NextPipeline]_vars

\* C30: a pipeline that was cancelled while running starts no further stage
\* and keeps the status "cancelled"
C30_CancelledPipelineStops ==
    pipeline.cancelled => (pipeline.status = "cancelled" /\ ~pipeline.late)

============================================================================
